---- MODULE Spec2Model ----
(***************************************************************************)
(* HMIWorker of modules/dreamview/backend/hmi/hmi_worker.cc: the status    *)
(* record behind status_mutex_, the loaded mode current_mode_, the mode /  *)
(* map / vehicle controller, the module process manager, the driving-mode  *)
(* transition protocol, the action dispatcher and the status update loop.  *)
(***************************************************************************)
EXTENDS Integers, Sequences, FiniteSets, TLC

VARIABLES
    status_,                 \* HMIStatus status_ (guarded by status_mutex_)
    current_mode_,           \* HMIMode current_mode_ (the loaded descriptor)
    status_changed_,         \* bool status_changed_ (the dirty flag)
    last_status_fingerprint, \* static in the SystemStatus callback
    status_mutex_,           \* holder of the write lock, or Free
    kvdb,                    \* KVDB value under FLAGS_current_mode_db_key
    FLAGS_map_dir,           \* the gflag SetGlobalFlag overrides
    flagfile,                \* lines appended to the global flagfile
    vehicle_in_use,          \* last path VehicleManager::UseVehicle accepted
    aborted,                 \* a CHECK failed or the process crashed
    pc, action, value,       \* per caller: position, HMIAction, its value
    todo, stale, issued,     \* SetupMode/ResetMode iteration, commands run
    ret,                     \* what Trigger returned
    calls, msgs,             \* number of Trigger calls / callbacks so far
    dm,                      \* ChangeDrivingMode frames of each caller
    chassis, pad_sent,       \* latest Chassis message, PadMessages written
    loop_pc, status_changed, \* StatusUpdateThreadLoop: position and local
    next_update_time, now,   \* its static, and Clock::NowInSeconds()
    stop_, snapshot, handled,\* stop flag, GetStatus() copy, handler inputs
    written_at,              \* header time of the last status written out
    stop_pc,                 \* position of the thread calling Stop()
    published_after_stop,    \* publishes since stop_ was set (up to 2)
    exit_code,               \* System(): ret of StartModule/StopModule's command
    received                 \* history: the message last given to the callback

vars == <<status_, current_mode_, status_changed_, last_status_fingerprint,
          status_mutex_, kvdb, FLAGS_map_dir, flagfile, vehicle_in_use,
          aborted, pc, action, value, todo, stale, issued, ret, calls, msgs,
          dm, chassis, pad_sent, loop_pc, status_changed, next_update_time,
          now, stop_, snapshot, handled, written_at, stop_pc,
          published_after_stop, exit_code, received>>

modeVars == <<status_, current_mode_, status_changed_,
              last_status_fingerprint, status_mutex_, kvdb, FLAGS_map_dir,
              flagfile, vehicle_in_use>>
callVars == <<pc, action, value, todo, stale, issued, ret, calls>>
driveVars == <<dm, chassis, pad_sent>>
obsVars == <<exit_code, received>>
loopVars == <<loop_pc, status_changed, next_update_time, now, stop_,
              snapshot, handled, written_at, stop_pc, published_after_stop>>

----------------------------------------------------------------------------
(* Bounds of the model *)

\* Trigger calls started in one behaviour
MaxCalls == 2
\* SystemStatus callbacks delivered in one behaviour
MaxMsgs == 1
MaxLoggedMsgs == 2
\* the same two numbers for the caller and the callbacks beside the loop
MaxLoopCalls == 1
MaxLoopMsgs == 1
\* last value of the clock (seconds)
MaxTime == 1

----------------------------------------------------------------------------
(* The environment: directories, mode files, callers *)

Free == "free"
Callers == {"u1", "u2"}

ModeNames == {"A", "B"}
MapNames == {"M1", "M2"}
VehicleNames == {"V1"}
\* a name no directory listing produces
Unknown == "X"
ModuleOrder == <<"m1", "m2", "m3">>

\* the content of the mode files (HMIMode text protos) on disk
ModeFile(path) ==
    IF path = <<"hmi_modes", "A">>
    THEN [modules |-> [n \in {"m1"} |->
                         [start_command |-> <<"start m1">>,
                          stop_command |-> <<"stop m1">>]],
          cyber_modules |-> [n \in {"m2"} |->
                         [dag_files |-> <<"a.dag", "b.dag">>,
                          process_group |-> "g"]],
          monitored_components |-> {"c1"}]
    ELSE [modules |-> [n \in {"m3"} |->
                         [start_command |-> <<"start m3">>,
                          stop_command |-> <<"stop m3">>]],
          cyber_modules |-> [n \in {"m2"} |->
                         [dag_files |-> <<"c.dag">>,
                          process_group |-> ""]],
          monitored_components |-> {"c2"}]

\* HMIWorker::LoadConfig: name -> path dictionaries of the three directories
config_ ==
    [modes |-> [n \in ModeNames |-> <<"hmi_modes", n>>],
     maps |-> [n \in MapNames |-> <<"map_data", n>>],
     vehicles |-> [n \in VehicleNames |-> <<"calibration_data", n>>]]

RECURSIVE DagFlags(_)
DagFlags(dags) ==
    IF dags = <<>> THEN <<>>
    ELSE <<"-d", Head(dags)>> \o DagFlags(Tail(dags))

\* LoadMode, the command strings derived for one cyber module
CyberToModule(cyber_module) ==
    [start_command |->
        <<"nohup mainboard">>
        \o (IF cyber_module.process_group # ""
            THEN <<"-p", cyber_module.process_group>> ELSE <<>>)
        \o DagFlags(cyber_module.dag_files) \o <<"&">>,
     stop_command |-> <<"pkill -f", Head(cyber_module.dag_files)>>]

\* HMIWorker::LoadMode
LoadMode(mode_config_path) ==
    LET mode == ModeFile(mode_config_path)
        names == DOMAIN mode.modules \cup DOMAIN mode.cyber_modules
    IN  [modules |-> [n \in names |->
                        IF n \in DOMAIN mode.cyber_modules
                        THEN CyberToModule(mode.cyber_modules[n])
                        ELSE mode.modules[n]],
         monitored_components |-> mode.monitored_components]

\* a default-constructed ComponentStatus
DefaultSummary == [status |-> "UNKNOWN", message |-> ""]
NotReported ==
    [status |-> "UNKNOWN", message |-> "Status not reported by Monitor."]

----------------------------------------------------------------------------
(* The status record and its fingerprint *)

NoValue == "<none>"

\* the module running map and the component map ChangeMode rebuilds
FreshModules(mode) == [n \in DOMAIN mode.modules |-> FALSE]
FreshComponents(mode) == [n \in mode.monitored_components |-> DefaultSummary]

\* faulty variant: ChangeMode without status_.clear_modules()
InstallModeKeepingModules(status, mode) ==
    [status EXCEPT
        !.modules = [n \in DOMAIN status.modules \cup DOMAIN mode.modules |->
                        IF n \in DOMAIN mode.modules THEN FALSE
                        ELSE status.modules[n]],
        !.monitored_components = FreshComponents(mode)]

\* ChangeMode: clear and rebuild both maps from the loaded mode
InstallMode(status, mode) ==
    [status EXCEPT !.modules = FreshModules(mode),
                   !.monitored_components = FreshComponents(mode)]

ModeIndex(name) == IF name = "A" THEN 1 ELSE IF name = "B" THEN 2 ELSE 0
MapIndex(name) == IF name = "M1" THEN 1 ELSE IF name = "M2" THEN 2 ELSE 0
VehicleIndex(name) == IF name = "V1" THEN 1 ELSE 0
SummaryIndex(s) ==
    IF s = DefaultSummary THEN 1 ELSE IF s = NotReported THEN 2 ELSE 3

RECURSIVE ModulesCode(_, _)
ModulesCode(modules, names) ==
    IF names = <<>> THEN 0
    ELSE (IF Head(names) \notin DOMAIN modules THEN 0
          ELSE IF modules[Head(names)] THEN 2 ELSE 1)
         + 3 * ModulesCode(modules, Tail(names))

ComponentCode(components, n) ==
    IF n \in DOMAIN components THEN SummaryIndex(components[n]) ELSE 0

\* apollo::common::util::MessageFingerprint: a hash of the serialized record,
\* here a number that differs whenever a field differs, and never 0
MessageFingerprint(status) ==
    1 + ModeIndex(status.current_mode)
      + 3 * (MapIndex(status.current_map)
      + 3 * (VehicleIndex(status.current_vehicle)
      + 2 * (ComponentCode(status.monitored_components, "c1")
      + 4 * (ComponentCode(status.monitored_components, "c2")
      + 4 * ModulesCode(status.modules, ModuleOrder)))))

\* the record InitStatus leaves: maps and vehicles listed, the mode changed
\* to the initial mode by ChangeMode
InitialMode == "A"
InitialStatus ==
    InstallMode([current_mode |-> InitialMode,
                 current_map |-> "M1",
                 current_vehicle |-> "",
                 modules |-> <<>>,
                 monitored_components |-> <<>>],
                LoadMode(config_.modes[InitialMode]))

----------------------------------------------------------------------------
(* The SystemStatus callback *)

\* no SystemStatus message has arrived yet
NoMessage == [realtime |-> FALSE, hmi_modules |-> <<>>, components |-> <<>>]

\* the SystemStatus messages the monitor may send: realtime ones, and one
\* that is not realtime though it reports a module as OK
SystemStatusMsgs ==
    {[realtime |-> TRUE, hmi_modules |-> hm, components |-> cs] :
        hm \in {[n \in {"m2"} |-> "OK"], [n \in {"m3"} |-> "ERROR"]},
        cs \in {<<>>, [n \in {"c1"} |-> DefaultSummary]}}
    \cup
    {[realtime |-> FALSE, hmi_modules |-> [n \in {"m2"} |-> "OK"],
      components |-> cs] :
        cs \in {<<>>, [n \in {"c1"} |-> DefaultSummary]}}

\* faulty variant: running flags taken from any message
UpdateModulesAlways(status, system_status) ==
    [n \in DOMAIN status.modules |->
        n \in DOMAIN system_status.hmi_modules
        /\ system_status.hmi_modules[n] = "OK"]

\* lines 268-275: running flags from a realtime message
UpdateModules(status, system_status) ==
    IF system_status.realtime
    THEN [n \in DOMAIN status.modules |->
            n \in DOMAIN system_status.hmi_modules
            /\ system_status.hmi_modules[n] = "OK"]
    ELSE status.modules

\* lines 276-285: the summary of every monitored component
UpdateComponents(status, system_status) ==
    [n \in DOMAIN status.monitored_components |->
        IF n \in DOMAIN system_status.components
        THEN system_status.components[n]
        ELSE NotReported]

OnSystemStatusRecord(status, system_status) ==
    [status EXCEPT !.modules = UpdateModules(status, system_status),
                   !.monitored_components =
                        UpdateComponents(status, system_status)]

\* line 291
FingerprintChanged(last, new) == last # new

\* the reader callback of FLAGS_system_status_topic handles one message,
\* under WLock
HandleSystemStatus(system_status) ==
    /\ ~aborted
    /\ status_mutex_ = Free
    /\ LET new_status == OnSystemStatusRecord(status_, system_status)
           new_fingerprint == MessageFingerprint(new_status)
       IN  /\ status_' = new_status
           /\ IF FingerprintChanged(last_status_fingerprint, new_fingerprint)
              THEN /\ status_changed_' = TRUE
                   /\ last_status_fingerprint' = new_fingerprint
              ELSE UNCHANGED <<status_changed_, last_status_fingerprint>>
    /\ msgs' = msgs + 1
    /\ UNCHANGED <<current_mode_, status_mutex_, kvdb, FLAGS_map_dir,
                   flagfile, vehicle_in_use, aborted>>
    /\ UNCHANGED <<pc, action, value, todo, stale, issued, ret, calls>>
    /\ UNCHANGED driveVars
    /\ UNCHANGED loopVars
    /\ UNCHANGED exit_code

\* the callback, whatever message arrives
OnSystemStatus ==
    /\ msgs < MaxMsgs
    /\ \E system_status \in SystemStatusMsgs :
          HandleSystemStatus(system_status) /\ UNCHANGED received

\* the callback, the message it was given being kept for the record
OnSystemStatusLogged ==
    /\ msgs < MaxLoggedMsgs
    /\ \E system_status \in SystemStatusMsgs :
          HandleSystemStatus(system_status) /\ received' = system_status

----------------------------------------------------------------------------
(* Trigger, and the callers' positions *)

ValueLessActions ==
    {"NONE", "SETUP_MODE", "RESET_MODE", "ENTER_AUTO_MODE", "DISENGAGE"}
ValuedActions ==
    {"CHANGE_MODE", "CHANGE_MAP", "CHANGE_VEHICLE", "START_MODULE",
     "STOP_MODULE"}

\* the switch of Trigger(action) and of Trigger(action, value): the position
\* the call continues at, "done" where Trigger returns at once
Dispatch(a, v) ==
    IF v = NoValue
    THEN CASE a = "NONE" -> "done"
           [] a = "SETUP_MODE" -> "iter_begin"
           [] a = "RESET_MODE" -> "iter_begin"
           [] a \in {"ENTER_AUTO_MODE", "DISENGAGE"} -> "dm_enter"
           [] OTHER -> "done"
    ELSE CASE a = "CHANGE_MODE" -> "cm_check"
           [] a = "CHANGE_MAP" -> "map_check"
           [] a = "CHANGE_VEHICLE" -> "veh_check"
           [] a \in {"START_MODULE", "STOP_MODULE"} -> "module"
           [] OTHER -> "done"

\* faulty variant: the default case returns true as well
DispatchResultAlwaysTrue(a, v) == TRUE

\* the value Trigger returns when its switch is done with the action
\* (ENTER_AUTO_MODE and DISENGAGE return ChangeDrivingMode's result instead)
DispatchResult(a, v) ==
    IF v = NoValue THEN a \in ValueLessActions ELSE a \in ValuedActions

Trigger(t, a, v) ==
    /\ ~aborted
    /\ calls < MaxCalls
    /\ pc[t] \in {"idle", "done"}
    /\ calls' = calls + 1
    /\ action' = [action EXCEPT ![t] = a]
    /\ value' = [value EXCEPT ![t] = v]
    /\ pc' = [pc EXCEPT ![t] = Dispatch(a, v)]
    /\ ret' = [ret EXCEPT ![t] = DispatchResult(a, v)]
    /\ issued' = [issued EXCEPT ![t] = <<>>]
    /\ UNCHANGED <<todo, stale, msgs>>
    /\ UNCHANGED modeVars
    /\ UNCHANGED <<aborted>>
    /\ UNCHANGED driveVars
    /\ UNCHANGED loopVars
    /\ UNCHANGED obsVars

----------------------------------------------------------------------------
(* The module process manager: SetupMode, ResetMode, StartModule, StopModule *)

\* faulty variant: an iteration that finds no module
NoModuleCommands(mode, names, start) == <<>>

\* iteration over current_mode_.modules(): the command of each module
RECURSIVE ModuleCommands(_, _, _)
ModuleCommands(mode, names, start) ==
    IF names = <<>> THEN <<>>
    ELSE (IF Head(names) \in DOMAIN mode.modules
          THEN <<IF start THEN mode.modules[Head(names)].start_command
                 ELSE mode.modules[Head(names)].stop_command>>
          ELSE <<>>)
         \o ModuleCommands(mode, Tail(names), start)

\* faulty variant: ChangeVehicle returns after ResetMode()
AfterIterationNoSwitch(a) == IF a = "CHANGE_MODE" THEN "cm_lock" ELSE "done"

\* where the call goes on after SetupMode() / ResetMode() has returned
AfterIteration(a) ==
    CASE a = "CHANGE_MODE" -> "cm_lock"
      [] a = "CHANGE_VEHICLE" -> "veh_use"
      [] OTHER -> "done"

IterationPc(a, rest) == IF rest = <<>> THEN AfterIteration(a) ELSE "iter"

\* SetupMode / ResetMode take begin() of current_mode_.modules(), unlocked
BeginIteration(t) ==
    /\ ~aborted
    /\ pc[t] = "iter_begin"
    /\ LET cmds == ModuleCommands(current_mode_, ModuleOrder,
                                  action[t] = "SETUP_MODE")
       IN  /\ todo' = [todo EXCEPT ![t] = cmds]
           /\ pc' = [pc EXCEPT ![t] = IterationPc(action[t], cmds)]
    /\ stale' = [stale EXCEPT ![t] = FALSE]
    /\ UNCHANGED <<action, value, issued, ret, calls, msgs>>
    /\ UNCHANGED modeVars
    /\ UNCHANGED <<aborted>>
    /\ UNCHANGED driveVars
    /\ UNCHANGED loopVars
    /\ UNCHANGED obsVars

\* one System(command) of the SetupMode / ResetMode loop
StepIteration(t) ==
    /\ ~aborted
    /\ pc[t] = "iter"
    /\ ~stale[t]
    /\ issued' = [issued EXCEPT ![t] = Append(@, Head(todo[t]))]
    /\ todo' = [todo EXCEPT ![t] = Tail(@)]
    /\ pc' = [pc EXCEPT ![t] = IterationPc(action[t], Tail(todo[t]))]
    /\ UNCHANGED <<action, value, stale, ret, calls, msgs>>
    /\ UNCHANGED modeVars
    /\ UNCHANGED <<aborted>>
    /\ UNCHANGED driveVars
    /\ UNCHANGED loopVars
    /\ UNCHANGED obsVars

\* the same step after ChangeMode has replaced current_mode_ under the
\* iterator (a data race: the iterator dangles).  The loop may go on over
\* the freed entries, may end early, or the process may crash.
StepStaleIteration(t) ==
    /\ ~aborted
    /\ pc[t] = "iter"
    /\ stale[t]
    /\ \E outcome \in {"goes_on", "ends", "crashes"} :
         /\ issued' = [issued EXCEPT ![t] =
                IF outcome = "goes_on" THEN Append(@, Head(todo[t])) ELSE @]
         /\ todo' = [todo EXCEPT ![t] =
                IF outcome = "goes_on" THEN Tail(@) ELSE <<>>]
         /\ pc' = [pc EXCEPT ![t] =
                IF outcome = "goes_on"
                THEN IterationPc(action[t], Tail(todo[t]))
                ELSE AfterIteration(action[t])]
         /\ aborted' = (outcome = "crashes")
    /\ UNCHANGED <<action, value, stale, ret, calls, msgs>>
    /\ UNCHANGED modeVars
    /\ UNCHANGED driveVars
    /\ UNCHANGED loopVars
    /\ UNCHANGED obsVars

\* faulty variant: no module is ever found
NeverFound(mode, module) == FALSE

\* lines 504, 513: FindOrNull(current_mode_.modules(), module) != nullptr
Found(mode, module) == module \in DOMAIN mode.modules

\* lines 120-127: the values std::system may return for a command
ExitCodes == {0, 1}

\* what std::system is given when the command string has been freed
FreedCommand == <<"<freed>">>

\* StartModule(value) / StopModule(value), lines 504 and 513: FindOrNull on
\* current_mode_.modules(), unlocked; module_conf points into the map
StartStopModule(t) ==
    /\ ~aborted
    /\ pc[t] = "module"
    /\ IF Found(current_mode_, value[t])
       THEN /\ todo' = [todo EXCEPT ![t] =
                  <<IF action[t] = "START_MODULE"
                    THEN current_mode_.modules[value[t]].start_command
                    ELSE current_mode_.modules[value[t]].stop_command>>]
            /\ pc' = [pc EXCEPT ![t] = "module_run"]
       ELSE /\ todo' = [todo EXCEPT ![t] = <<>>]
            /\ pc' = [pc EXCEPT ![t] = "done"]
    /\ stale' = [stale EXCEPT ![t] = FALSE]
    /\ UNCHANGED <<action, value, issued, ret, calls, msgs>>
    /\ UNCHANGED modeVars
    /\ UNCHANGED <<aborted>>
    /\ UNCHANGED driveVars
    /\ UNCHANGED loopVars
    /\ UNCHANGED obsVars

\* lines 505-506 and 514-515: System(module_conf->start_command()), which
\* logs the exit code of the command and returns nothing.  When ChangeMode
\* has replaced current_mode_ since FindOrNull, module_conf dangles (a data
\* race): the old command may still be read, freed memory may be read, or
\* the process may crash.
SystemModuleCommand(t) ==
    /\ ~aborted
    /\ pc[t] = "module_run"
    /\ \E outcome \in IF stale[t] THEN {"runs", "freed", "crashes"}
                      ELSE {"runs"} :
         /\ issued' = [issued EXCEPT ![t] =
                CASE outcome = "runs" -> Append(@, Head(todo[t]))
                  [] outcome = "freed" -> Append(@, FreedCommand)
                  [] OTHER -> @]
         /\ aborted' = (outcome = "crashes")
         /\ IF outcome = "crashes" THEN UNCHANGED exit_code
            ELSE exit_code' \in ExitCodes
    /\ todo' = [todo EXCEPT ![t] = <<>>]
    /\ pc' = [pc EXCEPT ![t] = "done"]
    /\ UNCHANGED <<action, value, stale, ret, calls, msgs>>
    /\ UNCHANGED modeVars
    /\ UNCHANGED driveVars
    /\ UNCHANGED loopVars
    /\ UNCHANGED received

----------------------------------------------------------------------------
(* The mode controller: ChangeMode, ChangeMap, ChangeVehicle *)

\* faulty variant: ChangeMode without the "mode doesn't actually change" test
NeverSameMode(status, mode_name) == FALSE

\* line 477
SameMode(status, mode_name) == status.current_mode = mode_name

\* lines 469-481: unknown mode, then the comparison under RLock
ChangeModeCheck(t) ==
    /\ ~aborted
    /\ pc[t] = "cm_check"
    /\ IF value[t] \notin DOMAIN config_.modes
       THEN pc' = [pc EXCEPT ![t] = "done"]
       ELSE /\ status_mutex_ = Free
            /\ pc' = [pc EXCEPT ![t] =
                  IF SameMode(status_, value[t]) THEN "done"
                  ELSE "iter_begin"]
    /\ UNCHANGED <<action, value, todo, stale, issued, ret, calls, msgs>>
    /\ UNCHANGED modeVars
    /\ UNCHANGED <<aborted>>
    /\ UNCHANGED driveVars
    /\ UNCHANGED loopVars
    /\ UNCHANGED obsVars

\* lines 484-485: WLock taken, status_.set_current_mode
ChangeModeLock(t) ==
    /\ ~aborted
    /\ pc[t] = "cm_lock"
    /\ status_mutex_ = Free
    /\ status_mutex_' = t
    /\ status_' = [status_ EXCEPT !.current_mode = value[t]]
    /\ pc' = [pc EXCEPT ![t] = "cm_load"]
    /\ UNCHANGED <<current_mode_, status_changed_, last_status_fingerprint,
                   kvdb, FLAGS_map_dir, flagfile, vehicle_in_use>>
    /\ UNCHANGED <<action, value, todo, stale, issued, ret, calls, msgs>>
    /\ UNCHANGED <<aborted>>
    /\ UNCHANGED driveVars
    /\ UNCHANGED loopVars
    /\ UNCHANGED obsVars

\* line 486: current_mode_ = LoadMode(...), the lock held; every iterator a
\* caller holds into the old current_mode_.modules() dangles from here on
ChangeModeLoad(t) ==
    /\ ~aborted
    /\ pc[t] = "cm_load"
    /\ current_mode_' = LoadMode(config_.modes[value[t]])
    /\ stale' = [u \in Callers |-> stale[u] \/ pc[u] \in {"iter", "module_run"}]
    /\ pc' = [pc EXCEPT ![t] = "cm_install"]
    /\ UNCHANGED <<status_, status_changed_, last_status_fingerprint,
                   status_mutex_, kvdb, FLAGS_map_dir, flagfile,
                   vehicle_in_use>>
    /\ UNCHANGED <<action, value, todo, issued, ret, calls, msgs>>
    /\ UNCHANGED <<aborted>>
    /\ UNCHANGED driveVars
    /\ UNCHANGED loopVars
    /\ UNCHANGED obsVars

\* lines 488-499: both maps rebuilt, the flag set, the lock released
ChangeModeInstall(t) ==
    /\ ~aborted
    /\ pc[t] = "cm_install"
    /\ status_' = InstallMode(status_, current_mode_)
    /\ status_changed_' = TRUE
    /\ status_mutex_' = Free
    /\ pc' = [pc EXCEPT ![t] = "cm_put"]
    /\ UNCHANGED <<current_mode_, last_status_fingerprint, kvdb,
                   FLAGS_map_dir, flagfile, vehicle_in_use>>
    /\ UNCHANGED <<action, value, todo, stale, issued, ret, calls, msgs>>
    /\ UNCHANGED <<aborted>>
    /\ UNCHANGED driveVars
    /\ UNCHANGED loopVars
    /\ UNCHANGED obsVars

\* line 500: KVDB::Put
ChangeModePut(t) ==
    /\ ~aborted
    /\ pc[t] = "cm_put"
    /\ kvdb' = value[t]
    /\ pc' = [pc EXCEPT ![t] = "done"]
    /\ UNCHANGED <<status_, current_mode_, status_changed_,
                   last_status_fingerprint, status_mutex_, FLAGS_map_dir,
                   flagfile, vehicle_in_use>>
    /\ UNCHANGED <<action, value, todo, stale, issued, ret, calls, msgs>>
    /\ UNCHANGED <<aborted>>
    /\ UNCHANGED driveVars
    /\ UNCHANGED loopVars
    /\ UNCHANGED obsVars

\* lines 427-441: unknown map, then the locked update of current_map
ChangeMapCheck(t) ==
    /\ ~aborted
    /\ pc[t] = "map_check"
    /\ IF value[t] \notin DOMAIN config_.maps
       THEN /\ pc' = [pc EXCEPT ![t] = "done"]
            /\ UNCHANGED <<status_, status_changed_>>
       ELSE /\ status_mutex_ = Free
            /\ IF status_.current_map = value[t]
               THEN /\ pc' = [pc EXCEPT ![t] = "done"]
                    /\ UNCHANGED <<status_, status_changed_>>
               ELSE /\ status_' = [status_ EXCEPT !.current_map = value[t]]
                    /\ status_changed_' = TRUE
                    /\ pc' = [pc EXCEPT ![t] = "map_flag"]
    /\ UNCHANGED <<current_mode_, last_status_fingerprint, status_mutex_,
                   kvdb, FLAGS_map_dir, flagfile, vehicle_in_use>>
    /\ UNCHANGED <<action, value, todo, stale, issued, ret, calls, msgs>>
    /\ UNCHANGED <<aborted>>
    /\ UNCHANGED driveVars
    /\ UNCHANGED loopVars
    /\ UNCHANGED obsVars

\* line 443 and SetGlobalFlag: the flag and one more line of the flagfile
ChangeMapFlag(t) ==
    /\ ~aborted
    /\ pc[t] = "map_flag"
    /\ LET map_dir == config_.maps[value[t]]
       IN  IF FLAGS_map_dir # map_dir
           THEN /\ FLAGS_map_dir' = map_dir
                /\ flagfile' = Append(flagfile, <<"map_dir", map_dir>>)
           ELSE UNCHANGED <<FLAGS_map_dir, flagfile>>
    /\ pc' = [pc EXCEPT ![t] = "iter_begin"]
    /\ UNCHANGED <<status_, current_mode_, status_changed_,
                   last_status_fingerprint, status_mutex_, kvdb,
                   vehicle_in_use>>
    /\ UNCHANGED <<action, value, todo, stale, issued, ret, calls, msgs>>
    /\ UNCHANGED <<aborted>>
    /\ UNCHANGED driveVars
    /\ UNCHANGED loopVars
    /\ UNCHANGED obsVars

\* lines 448-462: unknown vehicle, then the locked update of current_vehicle
ChangeVehicleCheck(t) ==
    /\ ~aborted
    /\ pc[t] = "veh_check"
    /\ IF value[t] \notin DOMAIN config_.vehicles
       THEN /\ pc' = [pc EXCEPT ![t] = "done"]
            /\ UNCHANGED <<status_, status_changed_>>
       ELSE /\ status_mutex_ = Free
            /\ IF status_.current_vehicle = value[t]
               THEN /\ pc' = [pc EXCEPT ![t] = "done"]
                    /\ UNCHANGED <<status_, status_changed_>>
               ELSE /\ status_' =
                          [status_ EXCEPT !.current_vehicle = value[t]]
                    /\ status_changed_' = TRUE
                    /\ pc' = [pc EXCEPT ![t] = "iter_begin"]
    /\ UNCHANGED <<current_mode_, last_status_fingerprint, status_mutex_,
                   kvdb, FLAGS_map_dir, flagfile, vehicle_in_use>>
    /\ UNCHANGED <<action, value, todo, stale, issued, ret, calls, msgs>>
    /\ UNCHANGED <<aborted>>
    /\ UNCHANGED driveVars
    /\ UNCHANGED loopVars
    /\ UNCHANGED obsVars

\* line 465: the CHECK of VehicleManager::UseVehicle, which aborts the process
\* when it fails
ChangeVehicleUse(t) ==
    /\ ~aborted
    /\ pc[t] = "veh_use"
    /\ \E succeeded \in BOOLEAN :
         IF succeeded
         THEN /\ vehicle_in_use' = config_.vehicles[value[t]]
              /\ pc' = [pc EXCEPT ![t] = "done"]
              /\ UNCHANGED aborted
         ELSE /\ aborted' = TRUE
              /\ UNCHANGED <<vehicle_in_use, pc>>
    /\ UNCHANGED <<status_, current_mode_, status_changed_,
                   last_status_fingerprint, status_mutex_, kvdb,
                   FLAGS_map_dir, flagfile>>
    /\ UNCHANGED <<action, value, todo, stale, issued, ret, calls, msgs>>
    /\ UNCHANGED driveVars
    /\ UNCHANGED loopVars
    /\ UNCHANGED obsVars

----------------------------------------------------------------------------
(* The state after construction, and the mode controller's specification *)

NoFrame ==
    [mode |-> "none", cur |-> "none", i |-> 0, samples |-> <<>>,
     write_failed |-> FALSE]

Init ==
    /\ status_ = InitialStatus
    /\ current_mode_ = LoadMode(config_.modes[InitialMode])
    /\ status_changed_ = TRUE
    /\ last_status_fingerprint = 0
    /\ status_mutex_ = Free
    /\ kvdb = InitialMode
    /\ FLAGS_map_dir = config_.maps["M1"]
    /\ flagfile = <<>>
    /\ vehicle_in_use = <<>>
    /\ aborted = FALSE
    /\ pc = [t \in Callers |-> "idle"]
    /\ action = [t \in Callers |-> "NONE"]
    /\ value = [t \in Callers |-> NoValue]
    /\ todo = [t \in Callers |-> <<>>]
    /\ stale = [t \in Callers |-> FALSE]
    /\ issued = [t \in Callers |-> <<>>]
    /\ ret = [t \in Callers |-> TRUE]
    /\ calls = 0
    /\ msgs = 0
    /\ dm = [t \in Callers |-> NoFrame]
    /\ chassis = "none"
    /\ pad_sent = [t \in Callers |-> <<>>]
    /\ loop_pc = "not_started"
    /\ status_changed = FALSE
    /\ next_update_time = 0
    /\ now = 0
    /\ stop_ = FALSE
    /\ snapshot = <<>>
    /\ handled = <<>>
    /\ written_at = -1
    /\ stop_pc = "idle"
    /\ published_after_stop = 0
    /\ exit_code = 0
    /\ received = NoMessage

\* the calls made while two callers run side by side
ControllerCalls ==
    {<<"CHANGE_MODE", "A">>, <<"CHANGE_MODE", "B">>,
     <<"CHANGE_MAP", "M1">>, <<"CHANGE_MAP", "M2">>,
     <<"CHANGE_VEHICLE", "V1">>, <<"CHANGE_VEHICLE", Unknown>>,
     <<"START_MODULE", "m1">>, <<"STOP_MODULE", "m1">>,
     <<"SETUP_MODE", NoValue>>, <<"RESET_MODE", NoValue>>}

Next ==
    \/ \E t \in Callers, c \in ControllerCalls : Trigger(t, c[1], c[2])
    \/ \E t \in Callers : BeginIteration(t)
    \/ \E t \in Callers : StepIteration(t)
    \/ \E t \in Callers : StepStaleIteration(t)
    \/ \E t \in Callers : StartStopModule(t)
    \/ \E t \in Callers : SystemModuleCommand(t)
    \/ \E t \in Callers : ChangeModeCheck(t)
    \/ \E t \in Callers : ChangeModeLock(t)
    \/ \E t \in Callers : ChangeModeLoad(t)
    \/ \E t \in Callers : ChangeModeInstall(t)
    \/ \E t \in Callers : ChangeModePut(t)
    \/ \E t \in Callers : ChangeMapCheck(t)
    \/ \E t \in Callers : ChangeMapFlag(t)
    \/ \E t \in Callers : ChangeVehicleCheck(t)
    \/ \E t \in Callers : ChangeVehicleUse(t)
    \/ OnSystemStatus

Spec == Init /\ [][Next]_vars

----------------------------------------------------------------------------
(* The status update loop *)

\* --status_publish_interval in seconds, a flag (5 unless set on the command
\* line): the value this configuration runs with
FLAGS_status_publish_interval == 1

\* status_update_handlers_: the writer Start() registers, and one more
Handlers == {"status_writer", "subscriber"}

\* faulty variant: the interval is tested on every tick, changed or not
SkipTickIgnoringChange(changed, time, next_time) == time < next_time

\* lines 549-554: the tick is skipped (continue)
SkipTick(changed, time, next_time) == ~changed /\ time < next_time

\* lines 549-556: next_update_time after a tick that publishes
NextUpdateTime(changed, time, next_time) ==
    IF changed THEN next_time ELSE time + FLAGS_status_publish_interval

\* faulty variant: a loop that does not look at stop_
StopNeverSeen(stop) == FALSE

\* line 539: while (!stop_)
StopSeen(stop) == stop

\* line 539 and 541: the test of stop_, then the sleep of one tick, during
\* which Clock::NowInSeconds() moves on by less than a second or by one
LoopTop ==
    /\ ~aborted
    /\ loop_pc = "top"
    /\ IF StopSeen(stop_)
       THEN /\ loop_pc' = "returned"
            /\ UNCHANGED now
       ELSE /\ loop_pc' = "read"
            /\ \E passed \in {0, 1} :
                 /\ now + passed <= MaxTime
                 /\ now' = now + passed
    /\ handled' = <<>>
    /\ UNCHANGED <<status_changed, next_update_time, stop_, snapshot,
                   written_at, stop_pc, published_after_stop>>
    /\ UNCHANGED modeVars
    /\ UNCHANGED <<aborted, msgs>>
    /\ UNCHANGED callVars
    /\ UNCHANGED driveVars
    /\ UNCHANGED obsVars

\* lines 542-556: status_changed_ is read and cleared under WLock; a tick
\* that read it clear then tests the clock against next_update_time and
\* either continues or publishes as a heartbeat (the clock of the model
\* moves during the sleep only)
LoopReadAndClear ==
    /\ ~aborted
    /\ loop_pc = "read"
    /\ status_mutex_ = Free
    /\ status_changed' = status_changed_
    /\ status_changed_' = FALSE
    /\ IF SkipTick(status_changed_, now, next_update_time)
       THEN /\ loop_pc' = "top"
            /\ UNCHANGED next_update_time
       ELSE /\ loop_pc' = "snapshot"
            /\ next_update_time' =
                  NextUpdateTime(status_changed_, now, next_update_time)
    /\ UNCHANGED <<now, stop_, snapshot, handled, written_at, stop_pc,
                   published_after_stop>>
    /\ UNCHANGED <<status_, current_mode_, last_status_fingerprint,
                   status_mutex_, kvdb, FLAGS_map_dir, flagfile,
                   vehicle_in_use>>
    /\ UNCHANGED <<aborted, msgs>>
    /\ UNCHANGED callVars
    /\ UNCHANGED driveVars
    /\ UNCHANGED obsVars

\* line 559 and GetStatus: a copy of status_ under RLock
LoopSnapshot ==
    /\ ~aborted
    /\ loop_pc = "snapshot"
    /\ status_mutex_ = Free
    /\ snapshot' = status_
    /\ loop_pc' = "handlers"
    /\ UNCHANGED <<status_changed, next_update_time, now, stop_, handled,
                   written_at, stop_pc, published_after_stop>>
    /\ UNCHANGED modeVars
    /\ UNCHANGED <<aborted, msgs>>
    /\ UNCHANGED callVars
    /\ UNCHANGED driveVars
    /\ UNCHANGED obsVars

\* lines 560-562 and 139-143: every handler is called with the copy; the
\* writer stamps a header with the time on it, writes it out and clears the
\* header again.  handled holds what the handlers got on the current tick.
LoopHandlers ==
    /\ ~aborted
    /\ loop_pc = "handlers"
    /\ handled' = [h \in Handlers |->
          [status_changed |-> status_changed, status |-> snapshot]]
    /\ written_at' = now
    /\ snapshot' = <<>>
    /\ loop_pc' = "top"
    /\ published_after_stop' =
          IF stop_ /\ published_after_stop < 2
          THEN published_after_stop + 1 ELSE published_after_stop
    /\ UNCHANGED <<status_changed, next_update_time, now, stop_, stop_pc>>
    /\ UNCHANGED modeVars
    /\ UNCHANGED <<aborted, msgs>>
    /\ UNCHANGED callVars
    /\ UNCHANGED driveVars
    /\ UNCHANGED obsVars

\* the state after construction and Start(): the handlers are registered
\* and the loop runs; it is observed until Stop(), so stop_ stays FALSE
InitLoop ==
    /\ Init!1 /\ Init!2 /\ Init!3 /\ Init!4 /\ Init!5 /\ Init!6 /\ Init!7
    /\ Init!8 /\ Init!9 /\ Init!10 /\ Init!11 /\ Init!12 /\ Init!13
    /\ Init!14 /\ Init!15 /\ Init!16 /\ Init!17 /\ Init!18 /\ Init!19
    /\ Init!20 /\ Init!21 /\ Init!22
    /\ loop_pc = "top"
    /\ status_changed = FALSE
    /\ next_update_time = 0
    /\ now = 0
    /\ stop_ = FALSE
    /\ snapshot = <<>>
    /\ handled = <<>>
    /\ written_at = -1
    /\ stop_pc = "idle"
    /\ published_after_stop = 0
    /\ exit_code = 0
    /\ received = NoMessage

\* the calls of the one caller that runs beside the loop
LoopCalls ==
    {<<"CHANGE_MODE", "A">>, <<"CHANGE_MODE", "B">>,
     <<"CHANGE_MODE", Unknown>>,
     <<"CHANGE_MAP", "M1">>, <<"CHANGE_MAP", "M2">>,
     <<"CHANGE_MAP", Unknown>>}

NextLoop ==
    \/ \E c \in LoopCalls : calls < MaxLoopCalls /\ Trigger("u1", c[1], c[2])
    \/ BeginIteration("u1")
    \/ StepIteration("u1")
    \/ ChangeModeCheck("u1")
    \/ ChangeModeLock("u1")
    \/ ChangeModeLoad("u1")
    \/ ChangeModeInstall("u1")
    \/ ChangeModePut("u1")
    \/ ChangeMapCheck("u1")
    \/ ChangeMapFlag("u1")
    \/ (msgs < MaxLoopMsgs /\ OnSystemStatus)
    \/ LoopTop
    \/ LoopReadAndClear
    \/ LoopSnapshot
    \/ LoopHandlers

SpecLoop == InitLoop /\ [][NextLoop]_vars

\* the loop's thread and a caller holding status_mutex_ are scheduled again
\* and again
LoopThread == LoopTop \/ LoopReadAndClear \/ LoopSnapshot \/ LoopHandlers
LockHolder == ChangeModeLoad("u1") \/ ChangeModeInstall("u1")

SpecLoopFair == SpecLoop /\ WF_vars(LoopThread) /\ WF_vars(LockHolder)

\* the running loop beside the two kinds of mutation: the callback, which
\* updates status_ in one locked step, and ChangeMode, which keeps the lock
\* over several
NextTick ==
    \/ \E m \in ModeNames :
          calls < MaxLoopCalls /\ Trigger("u1", "CHANGE_MODE", m)
    \/ BeginIteration("u1")
    \/ StepIteration("u1")
    \/ ChangeModeCheck("u1")
    \/ ChangeModeLock("u1")
    \/ ChangeModeLoad("u1")
    \/ ChangeModeInstall("u1")
    \/ ChangeModePut("u1")
    \/ (msgs < MaxLoopMsgs /\ OnSystemStatus)
    \/ LoopThread

SpecTickFair ==
    /\ InitLoop /\ [][NextTick]_vars
    /\ WF_vars(LoopThread) /\ WF_vars(LockHolder)

\* line 148: HMIWorker::Stop sets the stop flag
Stop ==
    /\ ~aborted
    /\ stop_pc = "idle"
    /\ stop_' = TRUE
    /\ stop_pc' = "joining"
    /\ UNCHANGED <<loop_pc, status_changed, next_update_time, now, snapshot,
                   handled, written_at, published_after_stop>>
    /\ UNCHANGED modeVars
    /\ UNCHANGED <<aborted, msgs>>
    /\ UNCHANGED callVars
    /\ UNCHANGED driveVars
    /\ UNCHANGED obsVars

\* lines 149-151: thread_future_.get() returns when the loop's task has
\* returned (a future that is not valid is not waited for)
StopJoin ==
    /\ ~aborted
    /\ stop_pc = "joining"
    /\ loop_pc \in {"returned", "not_started"}
    /\ stop_pc' = "returned"
    /\ UNCHANGED <<loop_pc, status_changed, next_update_time, now, stop_,
                   snapshot, handled, written_at, published_after_stop>>
    /\ UNCHANGED modeVars
    /\ UNCHANGED <<aborted, msgs>>
    /\ UNCHANGED callVars
    /\ UNCHANGED driveVars
    /\ UNCHANGED obsVars

\* the running loop beside a caller changing the mode (the one operation
\* that keeps status_mutex_ over several steps) and a thread that calls
\* Stop() at any moment
NextStop ==
    \/ \E m \in ModeNames :
          calls < MaxLoopCalls /\ Trigger("u1", "CHANGE_MODE", m)
    \/ BeginIteration("u1")
    \/ StepIteration("u1")
    \/ ChangeModeCheck("u1")
    \/ ChangeModeLock("u1")
    \/ ChangeModeLoad("u1")
    \/ ChangeModeInstall("u1")
    \/ ChangeModePut("u1")
    \/ LoopThread
    \/ Stop
    \/ StopJoin

\* one caller at a time beside the SystemStatus callback
NextCaller ==
    \/ \E c \in ControllerCalls : Trigger("u1", c[1], c[2])
    \/ BeginIteration("u1")
    \/ StepIteration("u1")
    \/ StartStopModule("u1")
    \/ SystemModuleCommand("u1")
    \/ ChangeModeCheck("u1")
    \/ ChangeModeLock("u1")
    \/ ChangeModeLoad("u1")
    \/ ChangeModeInstall("u1")
    \/ ChangeModePut("u1")
    \/ ChangeMapCheck("u1")
    \/ ChangeMapFlag("u1")
    \/ ChangeVehicleCheck("u1")
    \/ ChangeVehicleUse("u1")
    \/ OnSystemStatusLogged

SpecCaller == Init /\ [][NextCaller]_vars

SpecStop ==
    /\ InitLoop /\ [][NextStop]_vars
    /\ WF_vars(LoopThread) /\ WF_vars(LockHolder)

----------------------------------------------------------------------------
(* The driving-mode transition protocol *)

kMaxTries == 3

\* the target of Trigger(ENTER_AUTO_MODE) and of Trigger(DISENGAGE)
TargetOf(a) ==
    IF a = "ENTER_AUTO_MODE" THEN "COMPLETE_AUTO_DRIVE" ELSE "COMPLETE_MANUAL"

\* lines 394-404: the DrivingAction of the pad message
PadAction(mode) == IF mode = "COMPLETE_MANUAL" THEN "RESET" ELSE "START"

\* faulty variant: the result of the MANUAL sub-transition is not looked at
ManualResultIgnored(succeeded) == FALSE

\* lines 387-390: return false when the reset to MANUAL failed
ManualFailedReturns(succeeded) == ~succeeded

\* faulty variant: one more round of the retry loop
TriesLeftOffByOne(i) == i <= kMaxTries

\* line 408: i < kMaxTries
TriesLeft(i) == i < kMaxTries

\* faulty variant: any Chassis message counts as the target reached
ReachedOnAnyFeedback(observed, mode) == observed # "none"

\* lines 416-419: the reader is not empty and the latest driving_mode is mode
Reached(observed, mode) == observed # "none" /\ observed = mode

\* lines 383-391: ChangeDrivingMode(mode) entered; any mode but MANUAL first
\* calls ChangeDrivingMode(COMPLETE_MANUAL)
DrivingEnter(t) ==
    /\ ~aborted
    /\ pc[t] = "dm_enter"
    /\ dm' = [dm EXCEPT ![t] =
          [mode |-> TargetOf(action[t]),
           cur |-> IF TargetOf(action[t]) # "COMPLETE_MANUAL"
                   THEN "COMPLETE_MANUAL" ELSE TargetOf(action[t]),
           i |-> 0, samples |-> <<>>, write_failed |-> FALSE]]
    /\ pad_sent' = [pad_sent EXCEPT ![t] = <<>>]
    /\ pc' = [pc EXCEPT ![t] = "dm_send"]
    /\ UNCHANGED <<action, value, todo, stale, issued, ret, calls, msgs>>
    /\ UNCHANGED modeVars
    /\ UNCHANGED <<aborted, chassis>>
    /\ UNCHANGED loopVars
    /\ UNCHANGED obsVars

\* lines 410-413: the pad message is written (the result of Write is not
\* looked at), then the caller sleeps kTryInterval
DrivingSend(t) ==
    /\ ~aborted
    /\ pc[t] = "dm_send"
    /\ pad_sent' = [pad_sent EXCEPT ![t] = Append(@, PadAction(dm[t].cur))]
    /\ \E written \in BOOLEAN :
         dm' = [dm EXCEPT ![t].write_failed = @ \/ ~written]
    /\ pc' = [pc EXCEPT ![t] = "dm_sample"]
    /\ UNCHANGED <<action, value, todo, stale, issued, ret, calls, msgs>>
    /\ UNCHANGED modeVars
    /\ UNCHANGED <<aborted, chassis>>
    /\ UNCHANGED loopVars
    /\ UNCHANGED obsVars

\* lines 415-423 (and 387-391 when the inner call returns): the latest
\* Chassis message is sampled
DrivingSample(t) ==
    /\ ~aborted
    /\ pc[t] = "dm_sample"
    /\ LET f == dm[t]
           sampled == Append(f.samples, [for |-> f.cur, got |-> chassis])
           reached == Reached(chassis, f.cur)
           over == reached \/ ~TriesLeft(f.i + 1)
       IN  IF ~over
           THEN /\ dm' = [dm EXCEPT ![t].samples = sampled, ![t].i = f.i + 1]
                /\ pc' = [pc EXCEPT ![t] = "dm_send"]
                /\ UNCHANGED ret
           ELSE IF f.cur # f.mode /\ ~ManualFailedReturns(reached)
           THEN /\ dm' = [dm EXCEPT ![t].samples = sampled, ![t].i = 0,
                                    ![t].cur = f.mode]
                /\ pc' = [pc EXCEPT ![t] = "dm_send"]
                /\ UNCHANGED ret
           ELSE /\ dm' = [dm EXCEPT ![t].samples = sampled,
                                    ![t].i = IF reached THEN f.i ELSE f.i + 1]
                /\ pc' = [pc EXCEPT ![t] = "done"]
                /\ ret' = [ret EXCEPT ![t] = reached]
    /\ UNCHANGED <<action, value, todo, stale, issued, calls, msgs>>
    /\ UNCHANGED modeVars
    /\ UNCHANGED <<aborted, chassis, pad_sent>>
    /\ UNCHANGED loopVars
    /\ UNCHANGED obsVars

DrivingModes == {"COMPLETE_MANUAL", "COMPLETE_AUTO_DRIVE"}

\* the reader of FLAGS_chassis_topic receives a message (lines 298-308: a
\* high-beam signal triggers HMIAction::NONE, which does nothing)
OnChassis(driving_mode) ==
    /\ ~aborted
    /\ chassis # driving_mode
    /\ chassis' = driving_mode
    /\ UNCHANGED <<dm, pad_sent>>
    /\ UNCHANGED modeVars
    /\ UNCHANGED <<aborted, msgs>>
    /\ UNCHANGED callVars
    /\ UNCHANGED loopVars
    /\ UNCHANGED obsVars

\* the calls of Trigger made beside the driving-mode transitions: NONE, and
\* actions the switch of the form used has no case for
DrivingCalls ==
    {<<"ENTER_AUTO_MODE", NoValue>>, <<"DISENGAGE", NoValue>>,
     <<"NONE", NoValue>>, <<"CHANGE_MODE", NoValue>>,
     <<"START_MODULE", NoValue>>, <<"SETUP_MODE", "A">>, <<"NONE", "A">>,
     <<"ENTER_AUTO_MODE", "A">>}

NextDrive ==
    \/ \E call \in DrivingCalls : Trigger("u1", call[1], call[2])
    \/ DrivingEnter("u1")
    \/ DrivingSend("u1")
    \/ DrivingSample("u1")
    \/ \E m \in DrivingModes : OnChassis(m)
    \/ OnSystemStatus

SpecDrive == Init /\ [][NextDrive]_vars

----------------------------------------------------------------------------
(* Properties of the mode controller *)

Range(seq) == {seq[i] : i \in 1..Len(seq)}

\* the module names and monitored components a mode file declares
DeclaredModules(mode_name) ==
    DOMAIN ModeFile(config_.modes[mode_name]).modules
    \cup DOMAIN ModeFile(config_.modes[mode_name]).cyber_modules
DeclaredComponents(mode_name) ==
    ModeFile(config_.modes[mode_name]).monitored_components

\* whenever status_mutex_ is free, the keys of status_.modules are the module
\* names of current_mode_, and current_mode_ is the mode status_ names
KeysMatchLoadedMode ==
    status_mutex_ = Free =>
        /\ DOMAIN status_.modules = DOMAIN current_mode_.modules
        /\ current_mode_ = LoadMode(config_.modes[status_.current_mode])
        /\ DOMAIN status_.modules = DeclaredModules(status_.current_mode)

\* the step of ChangeMode(X) that installs X leaves every module not running
\* and the monitored components of X as the keys of the component map
InstallStep(t) ==
    (pc[t] = "cm_install" /\ pc'[t] = "cm_put") =>
        /\ status_'.current_mode = value[t]
        /\ DOMAIN status_'.modules = DeclaredModules(value[t])
        /\ \A n \in DOMAIN status_'.modules : status_'.modules[n] = FALSE
        /\ DOMAIN status_'.monitored_components = DeclaredComponents(value[t])

\* C1: in every state with the status lock free the module keys of the
\* status record are exactly the module names of the loaded mode, which is
\* the mode current_mode names; the step installing X leaves every module
\* not running and X's monitored components as the component keys.
C1_ModuleKeysMatchLoadedMode ==
    /\ []KeysMatchLoadedMode
    /\ [][\A t \in Callers : InstallStep(t)]_vars

\* a ChangeMode("B") has just installed B and released the lock
C1_Witness ==
    \E t \in Callers :
        /\ pc[t] = "cm_put"
        /\ value[t] = "B"
        /\ status_.current_mode = "B"
        /\ status_mutex_ = Free
        /\ msgs > 0

\* C2: when a ChangeMode call takes the lock to install its mode, the stop
\* command of every module of the mode loaded at that moment (the outgoing
\* mode) has been issued, by this call or by a call of another caller.
C2_OutgoingModeStopped ==
    [][\A t \in Callers :
         (pc[t] = "cm_lock" /\ pc'[t] = "cm_load") =>
            \A n \in DOMAIN current_mode_.modules :
               \E u \in Callers :
                  current_mode_.modules[n].stop_command \in Range(issued[u])]_vars

----------------------------------------------------------------------------
(* Properties of the driving-mode transition protocol *)

DrivingActions == {"ENTER_AUTO_MODE", "DISENGAGE"}
InDriving(t) ==
    /\ action[t] \in DrivingActions
    /\ value[t] = NoValue
    /\ pc[t] \in {"dm_send", "dm_sample", "done"}

\* the positions of the samples taken for one target
SamplesFor(t, mode) ==
    {j \in 1..Len(dm[t].samples) : dm[t].samples[j].for = mode}
Sent(t, pad_action) ==
    {k \in 1..Len(pad_sent[t]) : pad_sent[t][k] = pad_action}
\* a sample taken for the target reported the target
Hit(t, j) ==
    /\ dm[t].samples[j].got # "none"
    /\ dm[t].samples[j].got = dm[t].samples[j].for
ManualSucceeded(t) ==
    \E j \in SamplesFor(t, "COMPLETE_MANUAL") : Hit(t, j)

\* C3: every START message of a transition to AUTO_DRIVE follows a RESET
\* message whose sample reported MANUAL; a transition whose MANUAL
\* sub-transition failed has returned false and has sent no START.
C3_StartOnlyAfterManual ==
    \A t \in Callers :
        /\ \A k \in Sent(t, "START") :
              \E j \in 1..(k - 1) :
                 /\ pad_sent[t][j] = "RESET"
                 /\ j \in SamplesFor(t, "COMPLETE_MANUAL")
                 /\ Hit(t, j)
        /\ (pc[t] = "done" /\ action[t] = "ENTER_AUTO_MODE"
            /\ ~ManualSucceeded(t))
              => (ret[t] = FALSE /\ Sent(t, "START") = {})

\* a transition to AUTO_DRIVE has failed in its MANUAL sub-transition
C3_Witness ==
    \E t \in Callers :
        /\ pc[t] = "done"
        /\ action[t] = "ENTER_AUTO_MODE"
        /\ ret[t] = FALSE
        /\ pad_sent[t] = <<"RESET", "RESET", "RESET">>
        /\ Len(dm[t].samples) = 3
        /\ ~ManualSucceeded(t)

\* the attempts of a transition: never more than kMaxTries for one target,
\* and kMaxTries START attempts when AUTO_DRIVE is never reported
AttemptsBounded(t) ==
    InDriving(t) =>
        /\ dm[t].i <= kMaxTries
        /\ \A m \in DrivingModes :
              /\ Cardinality(SamplesFor(t, m)) <= kMaxTries
              /\ Cardinality(Sent(t, PadAction(m))) <= kMaxTries
        /\ (pc[t] = "done" /\ action[t] = "ENTER_AUTO_MODE"
            /\ ManualSucceeded(t) /\ ret[t] = FALSE)
              => /\ Cardinality(Sent(t, "START")) = kMaxTries
                 /\ Cardinality(SamplesFor(t, "COMPLETE_AUTO_DRIVE"))
                       = kMaxTries
                 /\ Len(pad_sent[t]) = Len(dm[t].samples)

\* a step of ChangeDrivingMode leaves the status record, the dirty flag and
\* the loaded mode alone
DrivingStepFrame(t) ==
    (pc[t] \in {"dm_enter", "dm_send", "dm_sample"} /\ pc'[t] # pc[t])
        => UNCHANGED <<status_, status_changed_, current_mode_>>

\* C4: a transition to AUTO_DRIVE whose MANUAL sub-transition succeeds and
\* in which AUTO_DRIVE is never sampled makes exactly 3 START attempts and
\* returns false; no (sub-)transition makes more than 3 attempts; the
\* transition's steps leave status record, dirty flag and loaded mode as is.
C4_ThreeAttemptsThenFailure ==
    /\ [](\A t \in Callers : AttemptsBounded(t))
    /\ [][\A t \in Callers : DrivingStepFrame(t)]_vars

\* AUTO_DRIVE was not reached in three START attempts after MANUAL was; a
\* SystemStatus callback has changed the status record meanwhile
C4_Witness ==
    \E t \in Callers :
        /\ pc[t] = "done"
        /\ action[t] = "ENTER_AUTO_MODE"
        /\ ret[t] = FALSE
        /\ ManualSucceeded(t)
        /\ Cardinality(Sent(t, "START")) = 3
        /\ msgs > 0

\* the result of a transition is decided by its samples alone
SuccessIffSampled(t) ==
    InDriving(t) =>
        /\ pc[t] = "done" =>
              (ret[t] <=> \E j \in SamplesFor(t, dm[t].mode) : Hit(t, j))
        /\ dm[t].mode # "COMPLETE_MANUAL" =>
              (dm[t].cur = dm[t].mode <=> ManualSucceeded(t))
        /\ \A j \in 1..Len(dm[t].samples) :
              Hit(t, j) =>
                 /\ \A k \in (j + 1)..Len(dm[t].samples) :
                       dm[t].samples[k].for # dm[t].samples[j].for
                 /\ dm[t].samples[j].for = dm[t].mode =>
                       /\ j = Len(dm[t].samples)
                       /\ Len(pad_sent[t]) = j
                       /\ pc[t] = "done"

\* a sample with no Chassis message received is a failed attempt, and the
\* next attempt is made while attempts are left
AbsentFeedbackRetries(t) ==
    (pc[t] = "dm_sample" /\ pc'[t] # pc[t] /\ chassis = "none")
        => /\ dm'[t].i = dm[t].i + 1
           /\ IF dm[t].i + 1 < kMaxTries
              THEN pc'[t] = "dm_send" /\ dm'[t].cur = dm[t].cur
              ELSE pc'[t] = "done" /\ ret'[t] = FALSE

\* C5: a (sub-)transition succeeds iff one of its samples finds a Chassis
\* message whose driving mode is the target; it returns on the first such
\* sample without another pad message; a sample finding no message is a
\* failed attempt followed by the next; a failed Write changes nothing.
C5_SuccessIffFeedbackMatches ==
    /\ [](\A t \in Callers : SuccessIffSampled(t))
    /\ [][\A t \in Callers : AbsentFeedbackRetries(t)]_vars

\* a transition succeeded after a sample without feedback, a Write of it
\* having failed
C5_Witness ==
    \E t \in Callers :
        /\ pc[t] = "done"
        /\ action[t] \in DrivingActions
        /\ ret[t] = TRUE
        /\ dm[t].write_failed
        /\ \E j \in 1..Len(dm[t].samples) : dm[t].samples[j].got = "none"

----------------------------------------------------------------------------
(* Properties of ChangeMode's early returns *)

\* the step with which caller t leaves ChangeMode's checks
ChecksLeft(t) == pc[t] = "cm_check" /\ pc'[t] # "cm_check"

\* C6: ChangeMode(X) with X the current mode returns from its checks: the
\* status record, the dirty flag, the loaded mode, the key-value store and
\* the flag file stay as they are and no module command is issued.
C6_SameModeIsNoOp ==
    [][\A t \in Callers :
         (ChecksLeft(t) /\ value[t] = status_.current_mode) =>
            /\ pc'[t] = "done"
            /\ issued[t] = <<>> /\ issued'[t] = <<>>
            /\ UNCHANGED <<status_, status_changed_, current_mode_, kvdb,
                           flagfile, last_status_fingerprint>>]_vars

\* ChangeMode of the current mode has returned, with the dirty flag clear
C6_Witness ==
    \E t \in Callers :
        /\ pc[t] = "done"
        /\ action[t] = "CHANGE_MODE"
        /\ value[t] = status_.current_mode
        /\ kvdb = status_.current_mode
        /\ issued[t] = <<>>
        /\ ~status_changed_
        /\ written_at >= 0

\* C7: Trigger(CHANGE_MODE, X) with X no mode of the configuration has, when
\* it is done, returned false and issued no command.
C7_UnknownModeFails ==
    \A t \in Callers :
        (pc[t] = "done" /\ action[t] = "CHANGE_MODE"
         /\ value[t] \notin DOMAIN config_.modes)
            => (ret[t] = FALSE /\ issued[t] = <<>>)

----------------------------------------------------------------------------
(* Properties of the update loop *)

Published ==
    /\ handled # <<>>
    /\ \A h \in Handlers : handled[h].status_changed

\* the step with which the loop reads the flag and decides on the tick
TickDecided == loop_pc = "read" /\ loop_pc' # "read"

\* the dirty flag stays set until the loop reads it, and the read clears it
FlagKeptForLoop ==
    /\ (status_changed_ /\ ~status_changed_') => TickDecided
    /\ TickDecided => (status_changed' = status_changed_ /\ ~status_changed_')

\* a tick that read the flag as set publishes, whatever the time
ChangedTickPublishes ==
    /\ (TickDecided /\ status_changed_)
          => (loop_pc' = "snapshot" /\ now' = now)
    /\ (loop_pc = "snapshot" /\ loop_pc' # "snapshot")
          => (loop_pc' = "handlers" /\ snapshot' = status_)
    /\ (loop_pc = "handlers" /\ loop_pc' # "handlers")
          => /\ \A h \in Handlers :
                   handled'[h] = [status_changed |-> status_changed,
                                  status |-> snapshot]
             /\ written_at' = now
    /\ loop_pc \in {"snapshot", "handlers"}
          => status_changed' = status_changed

\* C8: a set dirty flag stays set until the loop's next read, which clears
\* it; the tick that read it set hands a snapshot to every handler whatever
\* the clock and next_update_time are; and a set flag leads to such a
\* publish.
C8_ChangePublishedOnNextTick ==
    /\ [][FlagKeptForLoop /\ ChangedTickPublishes]_vars
    /\ (status_changed_ ~> Published)

\* a change is published before the heartbeat is due again
C8_Witness ==
    /\ loop_pc = "top"
    /\ Published
    /\ written_at = now
    /\ now < next_update_time
    /\ msgs + calls > 0

\* C9: a step that leaves the status record as it is does not set the dirty
\* flag.
C9_RewriteKeepsFlagClear ==
    [][(status_' = status_ /\ ~status_changed_) => ~status_changed_']_vars

\* C10: a tick that read the dirty flag clear, after some publish, publishes
\* iff more than FLAGS_status_publish_interval has passed since the last
\* publish of either kind.
C10_HeartbeatSinceLastPublish ==
    [][(TickDecided /\ ~status_changed_ /\ written_at >= 0)
          => (loop_pc' = "snapshot"
                <=> now - written_at > FLAGS_status_publish_interval)]_vars

----------------------------------------------------------------------------
(* Properties of Stop() *)

\* after stop_ is set the loop finishes the tick it is in and returns
StopObserved ==
    /\ published_after_stop <= 1
    /\ loop_pc = "returned" => stop_
    /\ stop_pc = "returned" => loop_pc = "returned"
    /\ stop_pc # "idle" => stop_

\* with stop_ set the loop leaves its top only by returning, and a loop that
\* has returned does nothing more
NoTickAfterStop ==
    /\ (stop_ /\ loop_pc = "top" /\ loop_pc' # "top") => loop_pc' = "returned"
    /\ loop_pc = "returned"
          => (loop_pc' = "returned" /\ handled' = handled
              /\ written_at' = written_at)

\* C11: once Stop() has set stop_ the loop returns (its thread being
\* scheduled), after at most the tick in progress and so at most one more
\* publish, and Stop() returns only after the loop has returned.
C11_StopEndsLoop ==
    /\ []StopObserved
    /\ [][NoTickAfterStop]_vars
    /\ (stop_ ~> loop_pc = "returned")

\* Stop() has returned after the loop published once more on its last tick
C11_Witness ==
    /\ stop_pc = "returned"
    /\ loop_pc = "returned"
    /\ published_after_stop = 1

----------------------------------------------------------------------------
(* Properties of ChangeMap and ChangeVehicle *)

\* the call of caller t has issued the stop command of every module of the
\* loaded mode, once each, and nothing else
AllStopped(cmds) ==
    /\ \A n \in DOMAIN current_mode_.modules :
          current_mode_.modules[n].stop_command \in Range(cmds)
    /\ Len(cmds) = Cardinality(DOMAIN current_mode_.modules)

\* the step with which caller t leaves the position at
Leaves(t, at) == pc[t] = at /\ pc'[t] # at

\* the steps of ChangeMap(name), one after the other
MapSteps(t) ==
    /\ (Leaves(t, "map_check")
        /\ (value[t] \notin DOMAIN config_.maps
            \/ value[t] = status_.current_map))
          => /\ pc'[t] = "done"
             /\ issued[t] = <<>> /\ issued'[t] = <<>>
             /\ UNCHANGED <<status_, status_changed_, FLAGS_map_dir,
                            flagfile, current_mode_>>
    /\ (Leaves(t, "map_check")
        /\ value[t] \in DOMAIN config_.maps
        /\ value[t] # status_.current_map)
          => /\ status_' = [status_ EXCEPT !.current_map = value[t]]
             /\ status_changed_'
             /\ status_mutex_ = Free /\ status_mutex_' = Free
             /\ issued'[t] = <<>>
             /\ UNCHANGED <<FLAGS_map_dir, flagfile>>
    /\ Leaves(t, "map_flag")
          => /\ FLAGS_map_dir' = config_.maps[value[t]]
             /\ status_.current_map = value[t]
             /\ issued'[t] = <<>>
    /\ (action[t] = "CHANGE_MAP" /\ pc[t] \in {"iter_begin", "iter"}
        /\ pc'[t] = "done")
          => /\ AllStopped(issued'[t])
             /\ status_'.current_map = value[t]
             /\ FLAGS_map_dir' = config_.maps[value[t]]

\* C12: ChangeMap(name) with name unknown or current changes neither the
\* status record nor the dirty flag nor FLAGS_map_dir and issues no command;
\* otherwise it sets current_map and the dirty flag in one locked step, then
\* FLAGS_map_dir to the path of name, then issues the stop command of every
\* module of the loaded mode, and returns with all three done.
C12_ChangeMap == [][MapSteps("u1")]_vars

\* ChangeMap("M2") has returned
C12_Witness ==
    /\ pc["u1"] = "done"
    /\ action["u1"] = "CHANGE_MAP"
    /\ value["u1"] = "M2"
    /\ status_.current_map = "M2"
    /\ FLAGS_map_dir = config_.maps["M2"]
    /\ Len(issued["u1"]) = 2

\* C13: when ChangeVehicle(name), name known and not current, returns,
\* current_vehicle is name, the stop command of every module of the loaded
\* mode was issued, and the flag file holds a line with the vehicle's value.
C13_VehiclePersisted ==
    [][\A t \in Callers :
         (pc[t] = "veh_use" /\ pc'[t] = "done") =>
            /\ status_.current_vehicle = value[t]
            /\ AllStopped(issued[t])
            /\ \E k \in 1..Len(flagfile') :
                  flagfile'[k][2] \in {value[t], config_.vehicles[value[t]]}]_vars

\* the steps of ChangeVehicle(name) around VehicleManager::UseVehicle
VehicleSteps(t) ==
    /\ (Leaves(t, "veh_check")
        /\ (value[t] \notin DOMAIN config_.vehicles
            \/ value[t] = status_.current_vehicle))
          => /\ pc'[t] = "done"
             /\ UNCHANGED <<vehicle_in_use, aborted, status_, status_changed_>>
    /\ (Leaves(t, "veh_check")
        /\ value[t] \in DOMAIN config_.vehicles
        /\ value[t] # status_.current_vehicle)
          => /\ pc'[t] = "iter_begin"
             /\ status_'.current_vehicle = value[t]
             /\ UNCHANGED <<vehicle_in_use, aborted>>
    /\ (action[t] = "CHANGE_VEHICLE" /\ pc[t] \in {"iter_begin", "iter"}
        /\ pc'[t] \notin {"iter_begin", "iter"})
          => pc'[t] = "veh_use"
    /\ (pc[t] = "veh_use" /\ pc'[t] # "veh_use")
          => /\ ~aborted'
             /\ pc'[t] = "done"
             /\ vehicle_in_use' = config_.vehicles[value[t]]
    /\ (pc[t] = "veh_use" /\ aborted' /\ pc' = pc)
          => UNCHANGED <<vehicle_in_use, status_, issued, ret>>

\* only a ChangeVehicle call with a known name reaches UseVehicle
SwitchOnlyForKnown ==
    \A t \in Callers :
        pc[t] = "veh_use" =>
            /\ action[t] = "CHANGE_VEHICLE"
            /\ value[t] \in DOMAIN config_.vehicles

\* C14: ChangeVehicle(name) with name known and not current calls
\* UseVehicle with the configured path of name; when UseVehicle fails the
\* process is aborted and no step follows; with an unknown or the current
\* name UseVehicle is not called and the process is not aborted.
C14_VehicleSwitchOrAbort ==
    /\ []SwitchOnlyForKnown
    /\ [][/\ ~aborted
          /\ \A t \in Callers : VehicleSteps(t)
          /\ vehicle_in_use' # vehicle_in_use
                => \E t \in Callers : pc[t] = "veh_use"]_vars

\* UseVehicle has failed
C14_Witness ==
    \E t \in Callers :
        /\ aborted
        /\ pc[t] = "veh_use"
        /\ ~stale[t]
        /\ status_.current_vehicle = value[t]
        /\ vehicle_in_use = <<>>

\* the action has a case in the switch of the form of Trigger used
HasHandler(a, v) ==
    IF v = NoValue
    THEN a \in {"NONE", "SETUP_MODE", "ENTER_AUTO_MODE", "DISENGAGE",
                "RESET_MODE"}
    ELSE a \in {"CHANGE_MODE", "CHANGE_MAP", "CHANGE_VEHICLE",
                "START_MODULE", "STOP_MODULE"}

\* the step of caller t is a call of Trigger
Triggered(t) == pc[t] \in {"idle", "done"} /\ calls' = calls + 1 /\ pc'[t] # "idle"
               /\ (action'[t] # action[t] \/ value'[t] # value[t]
                   \/ pc'[t] # pc[t] \/ ret'[t] # ret[t]
                   \/ issued'[t] # issued[t] \/ pc[t] = "done")

\* what a call of Trigger leaves alone when it returns at once
NothingDone(t) ==
    /\ pc'[t] = "done"
    /\ issued'[t] = <<>>
    /\ UNCHANGED modeVars
    /\ UNCHANGED driveVars
    /\ UNCHANGED loopVars
    /\ UNCHANGED <<aborted, msgs, todo, stale>>

DispatchSteps(t) ==
    Triggered(t) =>
        /\ ~HasHandler(action'[t], value'[t])
              => NothingDone(t) /\ ret'[t] = FALSE
        /\ (action'[t] = "NONE" /\ value'[t] = NoValue)
              => NothingDone(t) /\ ret'[t] = TRUE
        /\ (action'[t] \in DrivingActions /\ value'[t] = NoValue)
              => pc'[t] = "dm_enter"

\* the result of a returned ENTER_AUTO_MODE / DISENGAGE is the result of the
\* transition to the action's target
DrivingResultReturned(t) ==
    InDriving(t) =>
        /\ dm[t].mode = TargetOf(action[t])
        /\ pc[t] = "done" =>
              (ret[t] <=> \E j \in SamplesFor(t, TargetOf(action[t])) :
                              /\ Hit(t, j)
                              /\ j = Len(dm[t].samples))

\* C15: Trigger returns false, with nothing changed and no command run,
\* for an action without a case in the switch of the form used; NONE returns
\* true with nothing changed; ENTER_AUTO_MODE and DISENGAGE return the
\* result of ChangeDrivingMode(COMPLETE_AUTO_DRIVE / COMPLETE_MANUAL).
C15_DispatchByForm ==
    /\ [](\A t \in Callers : DrivingResultReturned(t))
    /\ [][\A t \in Callers : DispatchSteps(t)]_vars

\* a valued action was triggered without a value after a driving-mode
\* transition has returned
C15_Witness ==
    \E t \in Callers :
        /\ pc[t] = "done"
        /\ action[t] = "CHANGE_MODE"
        /\ value[t] = NoValue
        /\ ret[t] = FALSE
        /\ dm[t].samples # <<>>

\* the command StartModule / StopModule runs for a module of the loaded mode
CommandOf(a, module) ==
    IF a = "START_MODULE" THEN current_mode_.modules[module].start_command
    ELSE current_mode_.modules[module].stop_command

\* the steps of StartModule(value) / StopModule(value)
ModuleSteps(t) ==
    /\ Leaves(t, "module") =>
          /\ UNCHANGED modeVars
          /\ UNCHANGED <<aborted, issued, exit_code, ret>>
          /\ issued[t] = <<>>
          /\ IF value[t] \in DOMAIN current_mode_.modules
             THEN pc'[t] = "module_run"
             ELSE pc'[t] = "done"
    /\ Leaves(t, "module_run") =>
          /\ pc'[t] = "done"
          /\ ret'[t] = TRUE
          /\ issued'[t] = <<CommandOf(action[t], value[t])>>
          /\ UNCHANGED modeVars
          /\ UNCHANGED <<aborted>>

\* System is called only for a module of the loaded mode
RunsFoundModule ==
    \A t \in Callers :
        pc[t] = "module_run" =>
            /\ action[t] \in {"START_MODULE", "STOP_MODULE"}
            /\ value[t] \in DOMAIN current_mode_.modules

\* C16: StartModule / StopModule with a name that is no module of the
\* loaded mode runs no command, changes nothing and does not abort;
\* otherwise it runs the start / stop command of that module once, and
\* whatever exit code the command has, nothing else changes and Trigger
\* returns true.
C16_ModuleCommand ==
    /\ []RunsFoundModule
    /\ [][\A t \in Callers : ModuleSteps(t)]_vars

\* StopModule has returned after its command exited with a non-zero code
C16_Witness ==
    \E t \in Callers :
        /\ pc[t] = "done"
        /\ action[t] = "STOP_MODULE"
        /\ issued[t] = <<CommandOf("STOP_MODULE", value[t])>>
        /\ exit_code = 1
        /\ ret[t] = TRUE

\* StartModule has returned without having found its module
NotFoundReached ==
    \E t \in Callers :
        /\ pc[t] = "done"
        /\ action[t] = "START_MODULE"
        /\ value[t] \notin DOMAIN current_mode_.modules
        /\ issued[t] = <<>>

\* caller t runs a module command, reads the mode descriptor file, writes
\* the KV store or the flag file, or sleeps
BlockingStep(t) ==
    \/ Len(issued'[t]) > Len(issued[t])
    \/ Leaves(t, "cm_load")
    \/ Leaves(t, "cm_put")
    \/ flagfile' # flagfile
    \/ Leaves(t, "dm_send")

\* C17: the holder of the write lock on status_mutex_ runs no module
\* command, reads no mode descriptor, writes neither the KV store nor the
\* flag file and does not sleep while it holds the lock.
C17_NoBlockingUnderWriteLock ==
    [][\A t \in Callers : status_mutex_ = t => ~BlockingStep(t)]_vars

\* the start and stop commands of the modules of a mode
ModeCommands(mode) ==
    {mode.modules[n].start_command : n \in DOMAIN mode.modules}
        \cup {mode.modules[n].stop_command : n \in DOMAIN mode.modules}

\* caller t reads current_mode_.modules(): begin() of SetupMode / ResetMode,
\* FindOrNull of StartModule / StopModule
ReadsModules(t) == Leaves(t, "iter_begin") \/ Leaves(t, "module")

\* C18: SetupMode, ResetMode, StartModule and StopModule read the loaded
\* module set while no ChangeMode holds status_mutex_, and every command
\* they take from it is a command of the mode status_.current_mode names.
C18_ModulesReadUnderLock ==
    [][\A t \in Callers :
         ReadsModules(t) =>
            /\ status_mutex_ = Free
            /\ Range(todo'[t]) \subseteq
                  ModeCommands(LoadMode(config_.modes[status_.current_mode]))]_vars

\* no Trigger call is under way
Quiescent == \A t \in Callers : pc[t] \in {"idle", "done"}

\* C19: whenever every ChangeMode and ChangeMap call has returned, the KV
\* store holds status_.current_mode and FLAGS_map_dir is the configured path
\* of status_.current_map.
C19_PersistedMatchesStatus ==
    (Quiescent /\ ~aborted) =>
        /\ kvdb = status_.current_mode
        /\ status_.current_map # "" =>
              FLAGS_map_dir = config_.maps[status_.current_map]

\* the step is the SystemStatus callback
CallbackStep == msgs' = msgs + 1

\* what the callback makes of the message it was given
CallbackEffect ==
    /\ DOMAIN status_'.modules = DOMAIN status_.modules
    /\ DOMAIN status_'.monitored_components =
          DOMAIN status_.monitored_components
    /\ status_'.current_mode = status_.current_mode
    /\ status_'.current_map = status_.current_map
    /\ status_'.current_vehicle = status_.current_vehicle
    /\ UNCHANGED <<current_mode_, kvdb, FLAGS_map_dir, flagfile>>
    /\ ~received'.realtime => status_'.modules = status_.modules
    /\ received'.realtime =>
          \A n \in DOMAIN status_.modules :
             status_'.modules[n] <=>
                /\ n \in DOMAIN received'.hmi_modules
                /\ received'.hmi_modules[n] = "OK"
    /\ \A n \in DOMAIN status_.monitored_components :
          IF n \in DOMAIN received'.components
          THEN status_'.monitored_components[n] = received'.components[n]
          ELSE status_'.monitored_components[n].status = "UNKNOWN"

\* C20: the SystemStatus callback adds and removes no key of the module and
\* component maps and leaves current_mode, current_map and current_vehicle;
\* a message that is not realtime leaves every running flag; a realtime one
\* sets each flag to whether the message reports the module as OK; a
\* monitored component the message does not report gets status UNKNOWN,
\* a reported one the reported summary.
C20_CallbackEffect ==
    [][CallbackStep => CallbackEffect]_vars

\* the second message handled is not realtime and reports as OK a module
\* whose running flag is, and stays, false
C20_Witness ==
    /\ msgs = 2
    /\ ~received.realtime
    /\ \E n \in DOMAIN status_.modules \cap DOMAIN received.hmi_modules :
          received.hmi_modules[n] = "OK" /\ ~status_.modules[n]

----------------------------------------------------------------------------
(* No status change is lost by the update loop *)

\* a step of the loop thread
LoopStep == loop_pc' # loop_pc

\* the loop has read and cleared the flag on this tick and has not yet
\* handed its snapshot to the handlers
MidTick == loop_pc \in {"snapshot", "handlers"}

\* a step of a caller or of the callback sets the dirty flag while the loop
\* is between its read-and-clear and its handlers
RacingMutation == MidTick /\ ~LoopStep /\ ~status_changed_ /\ status_changed_'

\* the snapshot is taken from status_ as it is at line 559 and handed on
\* as it was taken; GetStatus and the handlers work on the copy
PublishOfCopy ==
    /\ (loop_pc = "snapshot" /\ LoopStep)
          => /\ snapshot' = status_
             /\ loop_pc' = "handlers"
             /\ UNCHANGED <<status_, current_mode_, status_changed_>>
    /\ (loop_pc = "handlers" /\ LoopStep)
          => /\ \A h \in Handlers :
                   /\ handled'[h].status = snapshot
                   /\ handled'[h].status_changed = status_changed
             /\ loop_pc' = "top"
             /\ UNCHANGED <<status_, current_mode_, status_changed_>>
    /\ MidTick => status_changed' = status_changed
    /\ (MidTick /\ ~LoopStep) => handled' = handled /\ snapshot' = snapshot
    /\ MidTick => handled = <<>>

\* a flag set in the middle of a tick is still set when the tick is over,
\* and the next tick reads it
RaceKeepsFlag ==
    /\ RacingMutation => (loop_pc' = loop_pc /\ status_changed_')
    /\ (MidTick /\ status_changed_) => status_changed_'
    /\ (loop_pc = "top" /\ status_changed_) => status_changed_'
    /\ (loop_pc = "read" /\ status_changed_ /\ LoopStep)
          => (loop_pc' = "snapshot" /\ status_changed' /\ ~status_changed_')

\* the handlers have been given the snapshot of the tick
Delivered == loop_pc = "top" /\ handled # <<>>

\* C21: once the dirty flag is set the loop comes to take a snapshot, and
\* the snapshot of a tick is handed to every handler as taken, with the
\* tick's reading of the flag; a flag set between the loop's read-and-clear
\* and its handlers stays set over the rest of the tick, is read as set by
\* the following tick and published by it; GetStatus and the handlers leave
\* status_ as it is.
C21_NoChangeLost ==
    /\ [][PublishOfCopy /\ RaceKeepsFlag]_vars
    /\ (status_changed_ ~> loop_pc = "snapshot")
    /\ (MidTick ~> Delivered)
    /\ ((MidTick /\ status_changed_) ~> (loop_pc = "read" /\ status_changed_))
    /\ ((loop_pc = "read" /\ status_changed_) ~> Published)

\* the callback or a caller has set the flag after the tick's read-and-clear
\* and before its snapshot, and the tick is a heartbeat
C21_Witness ==
    /\ loop_pc = "snapshot"
    /\ status_changed_
    /\ ~status_changed
    /\ written_at >= 0
    /\ msgs + calls > 0

====
